---- MODULE Spec2Model ----
(***************************************************************************)
(* Announcements router (src/backend/routers/announcements.py) as a state  *)
(* machine over the announcements collection.                              *)
(*                                                                         *)
(* Python str values are sequences of one-character strings.  A timestamp  *)
(* string "2024-01-01<sep>0<h>:00:00<tz>" is written <<sep, h>> or         *)
(* <<sep, h, "+">>: the date prefix and the ":00:00" tail, which every     *)
(* timestamp of the model shares, are left out; "+" stands for the UTC     *)
(* offset suffix "+00:00".  Python None is the one-element sequence        *)
(* <<"None">>, which is no str because "None" is not a character.          *)
(***************************************************************************)
EXTENDS Integers, Sequences, FiniteSets, TLC

\* ---------------------------------------------------------------- bounds
\* hours of the day the timestamps and the clock readings range over: 0..MaxHour
MaxHour == 2
\* number of documents insert_one is asked to create in one behaviour
MaxDocs == 2

\* ---------------------------------------------------------------- values
None == <<"None">>

IsStr(v) == v # None

\* Characters in code point order: " " < "+" < "0".."9" < "T" < "x"
Alphabet == <<" ", "+", "0", "1", "2", "3", "4", "5", "6", "7", "8", "9", "T", "x">>

Digits == <<"0", "1", "2", "3", "4", "5", "6", "7", "8", "9">>

HexChars == {"0", "1", "2", "3", "4", "5", "6", "7", "8", "9", "a", "b", "c", "d", "e", "f"}

\* the rank of each character in that order
OrdOf == [c \in {Alphabet[i] : i \in 1..Len(Alphabet)} |->
             CHOOSE i \in 1..Len(Alphabet) : Alphabet[i] = c]

Ord(c) == OrdOf[c]

RECURSIVE StrLess(_, _)
\* a < b on str: lexicographic by code point, a proper prefix is smaller
StrLess(a, b) ==
    IF b = <<>> THEN FALSE
    ELSE IF a = <<>> THEN TRUE
    ELSE IF Head(a) # Head(b) THEN Ord(Head(a)) < Ord(Head(b))
    ELSE StrLess(Tail(a), Tail(b))

\* int() of each decimal digit
DigitValueOf == [c \in {Digits[i] : i \in 1..Len(Digits)} |->
                    (CHOOSE i \in 1..Len(Digits) : Digits[i] = c) - 1]

DigitValue(c) == DigitValueOf[c]

IsDigit(c) == c \in DOMAIN DigitValueOf

\* datetime.now(): the naive local wall-clock time, which may be set back
\* between two requests; every reading is one of these hours
Instants == 0..MaxHour

\* datetime.isoformat() of a naive datetime: always the "T" separator
isoformat(t) == <<"T", Digits[t + 1]>>

\* datetime.fromisoformat(s): "ValueError" on a str that is no ISO timestamp,
\* "TypeError" on None; any single character separates date and time, a UTC
\* offset makes the datetime aware.
fromisoformat(s) ==
    IF ~IsStr(s) THEN [err |-> "TypeError"]
    ELSE IF /\ Len(s) \in {2, 3}
            /\ s[1] \in {" ", "T"}
            /\ IsDigit(s[2])
            /\ Len(s) = 3 => s[3] = "+"
         THEN [err |-> "", t |-> DigitValue(s[2]), aware |-> Len(s) = 3]
         ELSE [err |-> "ValueError"]

\* bson.ObjectId(s) accepts exactly the strings of 24 hexadecimal characters.
\* Identifier strings are written without 22 leading "0" characters, which
\* every identifier of the model shares: 2 characters stand for 24.
ObjectIdValid(s) == Len(s) = 2 /\ \A i \in 1..Len(s) : s[i] \in HexChars

\* ObjectId(announcement_id): the store's key type, distinct from its str
ObjectId(s) == [oid |-> s]

\* str(ObjectId)
ObjectIdStr(o) == o.oid

\* the n-th identifier the store's driver generates
GenId(n) == ObjectId(<<"0", Digits[n + 1]>>)

\* ---------------------------------------------------------------- the store
\* A document is a function from field names to values; "_id" is an ObjectId.
\* The collection is the set of its documents (no two share an "_id").

\* dict.get(f): the value, or None when the key is absent
Get(doc, f) == IF f \in DOMAIN doc THEN doc[f] ELSE None

\* {f: {"$gt": v}}: the field is a str that sorts after v
MatchGt(doc, f, v) == f \in DOMAIN doc /\ IsStr(doc[f]) /\ StrLess(v, doc[f])

\* {f: {"$lte": v}}: the field is a str that does not sort after v
MatchLte(doc, f, v) == f \in DOMAIN doc /\ IsStr(doc[f]) /\ ~StrLess(v, doc[f])

\* {f: {"$exists": False}}
MatchNotExists(doc, f) == f \notin DOMAIN doc

\* {f: None}: the field is null or absent
MatchNull(doc, f) == f \notin DOMAIN doc \/ doc[f] = None

\* find_one({"_id": obj_id}): the matching documents, none or one
find_one(st, obj_id) == {d \in st : d["_id"] = obj_id}

insert_one(st, doc) == st \cup {doc}

\* the update document without "$set": the stored document is replaced
SetFields_replace(doc, update_data) ==
    [f \in {"_id"} \cup DOMAIN update_data |->
        IF f \in DOMAIN update_data THEN update_data[f] ELSE doc[f]]

\* {"$set": update_data} on one document
SetFields(doc, update_data) ==
    [f \in DOMAIN doc \cup DOMAIN update_data |->
        IF f \in DOMAIN update_data THEN update_data[f] ELSE doc[f]]

\* update_one({"_id": obj_id}, {"$set": update_data})
update_one(st, obj_id, update_data) ==
    [store |-> {IF d["_id"] = obj_id THEN SetFields(d, update_data) ELSE d : d \in st},
     matched_count |-> Cardinality(find_one(st, obj_id))]

\* the delete with an empty filter in place of {"_id": obj_id}
delete_one_every(st, obj_id) ==
    [store |-> {}, deleted_count |-> Cardinality(find_one(st, obj_id))]

\* delete_one({"_id": obj_id})
delete_one(st, obj_id) ==
    [store |-> st \ find_one(st, obj_id),
     deleted_count |-> Cardinality(find_one(st, obj_id))]

\* announcement["_id"] = str(announcement["_id"])
Serialize(doc) ==
    IF "_id" \in DOMAIN doc THEN [doc EXCEPT !["_id"] = ObjectIdStr(doc["_id"])] ELSE doc

\* ---------------------------------------------------------------- handlers
Reply(st, status, body) == [store |-> st, status |-> status, body |-> body]

\* get_announcements(include_expired), with now = datetime.now().isoformat()
get_announcements(st, now, include_expired) ==
    LET announcements ==
            IF include_expired THEN st
            ELSE {d \in st : MatchGt(d, "expiration_date", now)}
    IN {Serialize(d) : d \in announcements}

\* get_active_announcements(), with now = datetime.now().isoformat()
get_active_announcements(st, now) ==
    LET announcements ==
            {d \in st :
                /\ \/ MatchLte(d, "start_date", now)
                   \/ MatchNotExists(d, "start_date")
                   \/ MatchNull(d, "start_date")
                /\ MatchGt(d, "expiration_date", now)}
    IN {Serialize(d) : d \in announcements}

\* "not start_date": None and the empty str
Falsy(s) == s = None \/ s = <<>>

\* expiry_dt <= start_dt raises TypeError between an aware and a naive datetime
Comparable(a, b) == a.aware = b.aware

\* the comparison with "<" in place of "<=": equal dates pass
DateOrderRejected_strict(expiry_dt, start_dt) == expiry_dt.t < start_dt.t

\* expiry_dt <= start_dt
DateOrderRejected(expiry_dt, start_dt) == expiry_dt.t <= start_dt.t

\* An exception leaving a handler: HTTPException(status_code, detail), or an
\* unhandled TypeError, which the framework answers with status 500.
Raised(status, detail) == [status |-> status, detail |-> detail]

NoError == Raised(0, "")

\* The dates check shared by create and update (parse both, then compare)
CheckDates(start_str, expiry_str) ==
    LET start_dt == fromisoformat(start_str)
        expiry_dt == fromisoformat(expiry_str)
    IN IF start_dt.err = "TypeError" THEN Raised(500, "TypeError")
       ELSE IF start_dt.err = "ValueError" THEN Raised(400, "Invalid date format")
       ELSE IF expiry_dt.err = "TypeError" THEN Raised(500, "TypeError")
       ELSE IF expiry_dt.err = "ValueError" THEN Raised(400, "Invalid date format")
       ELSE IF ~Comparable(expiry_dt, start_dt) THEN Raised(500, "TypeError")
       ELSE IF DateOrderRejected(expiry_dt, start_dt)
            THEN Raised(400, "Expiration date must be after start date")
       ELSE NoError

\* create_announcement with insert_one moved ahead of the dates check
create_announcement_insert_first(st, now1, now2, new_id, title, message, expiration_date, start_date) ==
    LET start == IF Falsy(start_date) THEN now1 ELSE start_date
        check == CheckDates(start, expiration_date)
        stored == [f \in {"_id", "title", "message", "start_date", "expiration_date",
                          "created_at"} |->
                      CASE f = "_id" -> new_id
                        [] f = "title" -> title
                        [] f = "message" -> message
                        [] f = "start_date" -> start
                        [] f = "expiration_date" -> expiration_date
                        [] f = "created_at" -> now2]
    IN IF check # NoError THEN Reply(insert_one(st, stored), check.status, check.detail)
       ELSE Reply(insert_one(st, stored), 200, Serialize(stored))

\* create_announcement: now1 and now2 are the two readings of datetime.now(),
\* new_id the identifier insert_one assigns.
create_announcement(st, now1, now2, new_id, title, message, expiration_date, start_date) ==
    LET start == IF Falsy(start_date) THEN now1 ELSE start_date
        check == CheckDates(start, expiration_date)
        new_announcement ==
            [title |-> title, message |-> message, start_date |-> start,
             expiration_date |-> expiration_date, created_at |-> now2]
        stored == [f \in DOMAIN new_announcement \cup {"_id"} |->
                      IF f = "_id" THEN new_id ELSE new_announcement[f]]
    IN IF check # NoError THEN Reply(st, check.status, check.detail)
       ELSE Reply(insert_one(st, stored), 200, Serialize(stored))

\* update_data: the arguments that are not None
BuildUpdate(title, message, expiration_date, start_date) ==
    LET args == [title |-> title, message |-> message,
                 expiration_date |-> expiration_date, start_date |-> start_date]
    IN [f \in {g \in DOMAIN args : args[g] # None} |-> args[f]]

\* the dates check made on every update, whatever it supplies
NeedsDateCheck_always(update_data) == TRUE

\* "start_date" in update_data or "expiration_date" in update_data
NeedsDateCheck(update_data) ==
    "start_date" \in DOMAIN update_data \/ "expiration_date" \in DOMAIN update_data

\* update_data.get(f, announcement.get(f))
Merged(update_data, announcement, f) ==
    IF f \in DOMAIN update_data THEN update_data[f] ELSE Get(announcement, f)

\* The validation block of update_announcement: NoError when the update may go
\* on to the write, else the exception it ends with.
ValidateUpdate(st, obj_id, update_data) ==
    IF ~NeedsDateCheck(update_data) THEN NoError
    ELSE IF find_one(st, obj_id) = {} THEN Raised(404, "Announcement not found")
    ELSE LET announcement == CHOOSE d \in find_one(st, obj_id) : TRUE
         IN CheckDates(Merged(update_data, announcement, "start_date"),
                       Merged(update_data, announcement, "expiration_date"))

\* The write of update_announcement and its matched_count test
WriteUpdate(st, obj_id, update_data) ==
    LET result == update_one(st, obj_id, update_data)
    IN IF result.matched_count = 0 THEN Reply(st, 404, "Announcement not found")
       ELSE Reply(result.store, 0, "")

\* The final find_one of update_announcement: subscripting None is a TypeError
RereadUpdate(st, obj_id) ==
    IF find_one(st, obj_id) = {} THEN Reply(st, 500, "TypeError")
    ELSE Reply(st, 200, Serialize(CHOOSE d \in find_one(st, obj_id) : TRUE))

\* update_announcement without its "No fields to update" check
UpdateEarly_id_only(announcement_id, update_data) ==
    IF ~ObjectIdValid(announcement_id) THEN Raised(400, "Invalid announcement ID")
    ELSE NoError

\* The checks update_announcement makes before it touches the store
UpdateEarly(announcement_id, update_data) ==
    IF ~ObjectIdValid(announcement_id) THEN Raised(400, "Invalid announcement ID")
    ELSE IF DOMAIN update_data = {} THEN Raised(400, "No fields to update")
    ELSE NoError

\* update_announcement, run without interleaving
update_announcement(st, announcement_id, title, message, expiration_date, start_date) ==
    LET update_data == BuildUpdate(title, message, expiration_date, start_date)
        obj_id == ObjectId(announcement_id)
        early == UpdateEarly(announcement_id, update_data)
        valid == ValidateUpdate(st, obj_id, update_data)
        written == WriteUpdate(st, obj_id, update_data)
    IN IF early # NoError THEN Reply(st, early.status, early.detail)
       ELSE IF valid # NoError THEN Reply(st, valid.status, valid.detail)
       ELSE IF written.status # 0 THEN written
       ELSE RereadUpdate(written.store, obj_id)

\* delete_announcement
delete_announcement(st, announcement_id) ==
    LET result == delete_one(st, ObjectId(announcement_id))
    IN IF ~ObjectIdValid(announcement_id) THEN Reply(st, 400, "Invalid announcement ID")
       ELSE IF result.deleted_count = 0 THEN Reply(st, 404, "Announcement not found")
       ELSE Reply(result.store, 200, "Announcement deleted successfully")

\* ---------------------------------------------------------------- state
VARIABLES
    store,      \* announcements_collection: the set of stored documents
    nextId,     \* how many identifiers insert_one has assigned, plus one
    deleted,    \* history: the identifiers of the documents delete_one removed
    response,   \* the last finished request: operation, status code and the
                \* number of records in its body
    procs       \* the update requests in flight (interleaved specification)

vars == <<store, nextId, deleted, response, procs>>

\* ---------------------------------------------------------------- inputs
\* title and message of a create request, and of an update request
CreateTitles == {<<"A">>}

UpdateTitles == {<<"B">>}

Messages == {<<"m">>}

\* "T"-separated timestamps for every hour, and one " "-separated timestamp
NaiveDates == {isoformat(h) : h \in Instants} \cup {<<" ", "1">>}

AwareDates == {<<"T", "0", "+">>}

\* the empty str: falsy as a start_date of create, no ISO timestamp elsewhere
BadDates == {<<>>}

DateArgs == NaiveDates \cup AwareDates \cup BadDates

\* identifiers a client may send: the ones insert_one assigns in the behaviour
\* and a str that is no ObjectId
BadIds == {<<"0", "x", "1">>}

IdArgs == {ObjectIdStr(GenId(n)) : n \in 1..MaxDocs} \cup BadIds

\* the clock readings of create requests: records are created before the last
\* hour, so that a timestamp in range is still ahead of every reading
CreateHours == {h \in Instants : h < MaxHour}

Procs == {1, 2}

Idle == [pc |-> "idle"]

Answer(op, status, count) == [op |-> op, status |-> status, count |-> count]

\* a create or update returns one record with status 200, else an error detail
RecordCount(status) == IF status = 200 THEN 1 ELSE 0

Init ==
    /\ store = {}
    /\ nextId = 1
    /\ deleted = {}
    /\ response = Answer("none", 0, 0)
    /\ procs = [p \in Procs |-> Idle]

\* ---------------------------------------------------------------- requests, each run atomically
List ==
    \E include_expired \in BOOLEAN, now \in Instants :
        /\ response' = Answer("list", 200,
               Cardinality(get_announcements(store, isoformat(now), include_expired)))
        /\ UNCHANGED <<store, nextId, deleted, procs>>

ListActive ==
    \E now \in Instants :
        /\ response' = Answer("active", 200,
               Cardinality(get_active_announcements(store, isoformat(now))))
        /\ UNCHANGED <<store, nextId, deleted, procs>>

\* Both readings of datetime.now() in create_announcement fall in the same hour.
Create ==
    /\ nextId <= MaxDocs
    /\ \E title \in CreateTitles, message \in Messages, expiration_date \in DateArgs,
          start_date \in DateArgs \cup {None}, now \in CreateHours :
        /\ LET r == create_announcement(store, isoformat(now), isoformat(now),
                                        GenId(nextId), title, message,
                                        expiration_date, start_date)
           IN /\ store' = r.store
              /\ response' = Answer("create", r.status, RecordCount(r.status))
              /\ nextId' = IF r.status = 200 THEN nextId + 1 ELSE nextId
        /\ UNCHANGED <<deleted, procs>>

Update ==
    \E announcement_id \in IdArgs, title \in UpdateTitles \cup {None},
       message \in Messages \cup {None}, expiration_date \in DateArgs \cup {None},
       start_date \in DateArgs \cup {None} :
        /\ LET r == update_announcement(store, announcement_id, title, message,
                                        expiration_date, start_date)
           IN /\ store' = r.store
              /\ response' = Answer("update", r.status, RecordCount(r.status))
        /\ UNCHANGED <<nextId, deleted, procs>>

Delete ==
    \E announcement_id \in IdArgs :
        /\ LET r == delete_announcement(store, announcement_id)
           IN /\ store' = r.store
              /\ response' = Answer("delete", r.status, 0)
              /\ deleted' = IF r.status = 200
                            THEN deleted \cup {announcement_id} ELSE deleted
        /\ UNCHANGED <<nextId, procs>>

Next == List \/ ListActive \/ Create \/ Update \/ Delete

Spec == Init /\ [][Next]_vars

\* ---------------------------------------------------------------- a collection with arbitrary dates
\* The collection is shared: a document may have been written by interleaved
\* updates (SpecConc below) or by another client, so its dates may be in any
\* order and its start_date may be null.
SeedDocs ==
    {[f \in {"_id", "title", "message", "start_date", "expiration_date", "created_at"} |->
        CASE f = "_id" -> GenId(1)
          [] f = "title" -> <<"A">>
          [] f = "message" -> <<"m">>
          [] f = "start_date" -> s
          [] f = "expiration_date" -> e
          [] f = "created_at" -> isoformat(0)]
     : s \in NaiveDates \cup {None}, e \in NaiveDates}

InitSeeded ==
    /\ store \in {{d} : d \in SeedDocs}
    /\ nextId = 2
    /\ deleted = {}
    /\ response = Answer("none", 0, 0)
    /\ procs = [p \in Procs |-> Idle]

NextSeeded == List \/ ListActive \/ Update \/ Delete

SpecSeeded == InitSeeded /\ [][NextSeeded]_vars

\* ---------------------------------------------------------------- update requests interleaved per store access
\* what the interleaved update requests send
ConcDates == {isoformat(1)}

\* The first store access of update_announcement and what precedes it: the
\* identifier and field checks, then the validation read when a date is sent.
UStart(p) ==
    /\ procs[p].pc = "idle"
    /\ \E announcement_id \in IdArgs, title \in UpdateTitles \cup {None},
          expiration_date \in ConcDates \cup {None}, start_date \in ConcDates \cup {None} :
        LET update_data == BuildUpdate(title, None, expiration_date, start_date)
            obj_id == ObjectId(announcement_id)
            early == UpdateEarly(announcement_id, update_data)
            valid == ValidateUpdate(store, obj_id, update_data)
        IN IF early # NoError
           THEN /\ response' = Answer("update", early.status, 0)
                /\ UNCHANGED procs
           ELSE IF valid # NoError
           THEN /\ response' = Answer("update", valid.status, 0)
                /\ UNCHANGED procs
           ELSE /\ procs' = [procs EXCEPT ![p] =
                                [pc |-> "write", obj_id |-> obj_id, update_data |-> update_data]]
                /\ UNCHANGED response
    /\ UNCHANGED <<store, nextId, deleted>>

\* update_one and the matched_count test
UWrite(p) ==
    /\ procs[p].pc = "write"
    /\ LET r == WriteUpdate(store, procs[p].obj_id, procs[p].update_data)
       IN IF r.status # 0
          THEN /\ response' = Answer("update", r.status, 0)
               /\ procs' = [procs EXCEPT ![p] = Idle]
               /\ UNCHANGED store
          ELSE /\ store' = r.store
               /\ procs' = [procs EXCEPT ![p] = [pc |-> "reread", obj_id |-> procs[p].obj_id]]
               /\ UNCHANGED response
    /\ UNCHANGED <<nextId, deleted>>

\* the final find_one and the return
UReread(p) ==
    /\ procs[p].pc = "reread"
    /\ LET r == RereadUpdate(store, procs[p].obj_id)
       IN response' = Answer("update", r.status, RecordCount(r.status))
    /\ procs' = [procs EXCEPT ![p] = Idle]
    /\ UNCHANGED <<store, nextId, deleted>>

\* one document is enough for two updates and a delete to meet on
ConcCreate == nextId = 1 /\ Create

NextConc ==
    \/ ConcCreate
    \/ Delete
    \/ \E p \in Procs : UStart(p) \/ UWrite(p) \/ UReread(p)

SpecConc == Init /\ [][NextConc]_vars

\* ---------------------------------------------------------------- properties
\* the hour a stored timestamp str denotes
Hour(s) == fromisoformat(s).t

\* expiration_date > start_date as instants, on every document of st
DatesOrdered(st) ==
    \A d \in st :
        LET start_dt == fromisoformat(d["start_date"])
            expiry_dt == fromisoformat(d["expiration_date"])
        IN /\ start_dt.err = ""
           /\ expiry_dt.err = ""
           /\ Comparable(expiry_dt, start_dt)
           /\ expiry_dt.t > start_dt.t

Stored(st, announcement_id) == {d \in st : ObjectIdStr(d["_id"]) = announcement_id}

TextArgs == (UpdateTitles \cup {None}) \X (Messages \cup {None})

DateArgPairs == (DateArgs \cup {None}) \X (DateArgs \cup {None})

\* C1: with every request run atomically, after any sequence of create, update
\* and delete requests every stored record has expiration_date strictly after
\* start_date.
C1_DatesOrderedAtomic == DatesOrdered(store)

\* C1 witness: documents were created, one was deleted, and an update has just
\* succeeded on a record whose dates are an hour apart in two spellings.
C1_Witness ==
    /\ response.op = "update"
    /\ response.status = 200
    /\ deleted # {}
    /\ \E d \in store :
        /\ d["start_date"] = <<" ", "1">>
        /\ d["expiration_date"] = isoformat(2)

\* C2: the same invariant when update requests interleave at their store
\* accesses (validation read, then write).
C2_DatesOrderedInterleaved == DatesOrdered(store)

\* C3: a request that returns 400 or 404 leaves the collection exactly as it
\* was before the request.
C3_ErrorsLeaveStore == [][response'.status \in {400, 404} => store' = store]_vars

\* C3 witness: an update was rejected with 400 while a record is stored.
C3_Witness == response = Answer("update", 400, 0) /\ store # {}

\* C4: for every instant now, list(true) returns all records and list(false)
\* exactly the records whose expiration_date is after now (equal to now:
\* excluded), so list(true) is a superset of list(false).
C4_ListFilters ==
    \A now \in Instants :
        /\ get_announcements(store, isoformat(now), TRUE) = {Serialize(d) : d \in store}
        /\ get_announcements(store, isoformat(now), FALSE) =
               {Serialize(d) : d \in {x \in store : Hour(x["expiration_date"]) > now}}
        /\ get_announcements(store, isoformat(now), FALSE) \subseteq
               get_announcements(store, isoformat(now), TRUE)

\* C5: for every instant now, listActive() returns exactly the records of
\* list(false) whose start_date is absent, null or not after now.
C5_ActiveFilters ==
    \A now \in Instants :
        get_active_announcements(store, isoformat(now)) =
            {r \in get_announcements(store, isoformat(now), FALSE) :
                \/ "start_date" \notin DOMAIN r
                \/ r["start_date"] = None
                \/ Hour(r["start_date"]) <= now}

\* C6 as stated: malformed identifier -> 400; well-formed identifier matching no
\* record -> 404 whatever fields are supplied (none included); no fields for an
\* existing record -> 400.
C6_UpdateErrorClasses ==
    \A announcement_id \in IdArgs, text \in TextArgs, dates \in DateArgPairs :
        LET r == update_announcement(store, announcement_id, text[1], text[2],
                                     dates[1], dates[2])
            none == text = <<None, None>> /\ dates = <<None, None>>
        IN /\ ~ObjectIdValid(announcement_id) => r.status = 400
           /\ ObjectIdValid(announcement_id) /\ Stored(store, announcement_id) = {}
                  => r.status = 404
           /\ Stored(store, announcement_id) # {} /\ none => r.status = 400

\* C6 amended: malformed identifier -> 400; well-formed identifier and no field
\* supplied -> 400 whether or not a record matches; well-formed identifier
\* matching no record and at least one field supplied -> 404, whether or not
\* the supplied dates are valid.
C6_UpdateErrorClassesAmended ==
    \A announcement_id \in IdArgs, text \in TextArgs, dates \in DateArgPairs :
        LET r == update_announcement(store, announcement_id, text[1], text[2],
                                     dates[1], dates[2])
            none == text = <<None, None>> /\ dates = <<None, None>>
        IN /\ ~ObjectIdValid(announcement_id) => r.status = 400
           /\ ObjectIdValid(announcement_id) /\ none => r.status = 400
           /\ ObjectIdValid(announcement_id) /\ ~none /\ Stored(store, announcement_id) = {}
                  => r.status = 404

\* C6 witness: an update of a deleted record's identifier has returned 404.
C6_Witness == response = Answer("update", 404, 0) /\ deleted # {}

\* what delete does, and that a deleted record is gone from every list
DeleteBasics ==
    /\ \A announcement_id \in IdArgs :
        LET r == delete_announcement(store, announcement_id)
        IN /\ ~ObjectIdValid(announcement_id) => r.status = 400 /\ r.store = store
           /\ ObjectIdValid(announcement_id) /\ Stored(store, announcement_id) = {}
                  => r.status = 404 /\ r.store = store
           /\ Stored(store, announcement_id) # {}
                  => r.status = 200 /\ r.store = store \ Stored(store, announcement_id)
    /\ \A announcement_id \in deleted :
        /\ delete_announcement(store, announcement_id).status = 404
        /\ \A now \in Instants, include_expired \in BOOLEAN :
            /\ \A r \in get_announcements(store, isoformat(now), include_expired) :
                   r["_id"] # announcement_id
            /\ \A r \in get_active_announcements(store, isoformat(now)) :
                   r["_id"] # announcement_id

\* C7 as stated: delete is 400 on a malformed identifier and 404 on one that
\* matches no record (so on a second delete); a successful delete removes exactly
\* the matching record, which no later list returns, and any later update or
\* delete of it is 404.
C7_Delete ==
    /\ DeleteBasics
    /\ \A announcement_id \in deleted, text \in TextArgs, dates \in DateArgPairs :
        update_announcement(store, announcement_id, text[1], text[2],
                            dates[1], dates[2]).status = 404

\* C7 amended: as C7, but a later update of the removed record is 404 only when
\* it supplies at least one field; with no field it is 400.
C7_DeleteAmended ==
    /\ DeleteBasics
    /\ \A announcement_id \in deleted, text \in TextArgs, dates \in DateArgPairs :
        update_announcement(store, announcement_id, text[1], text[2],
                            dates[1], dates[2]).status =
            IF text = <<None, None>> /\ dates = <<None, None>> THEN 400 ELSE 404

\* C7 witness: a record was deleted, another is still stored, and a second
\* delete has returned 404.
C7_Witness == deleted # {} /\ store # {} /\ response = Answer("delete", 404, 0)

\* C8: a successful update changes only the supplied fields of the one record
\* named; "_id" and created_at never change, no other record changes and the
\* number of records stays.
C8_UpdateFrame ==
    \A announcement_id \in IdArgs, text \in TextArgs, dates \in DateArgPairs :
        LET r == update_announcement(store, announcement_id, text[1], text[2],
                                     dates[1], dates[2])
            update_data == BuildUpdate(text[1], text[2], dates[1], dates[2])
        IN r.status = 200 =>
            /\ Cardinality(r.store) = Cardinality(store)
            /\ \A d \in store : ObjectIdStr(d["_id"]) # announcement_id => d \in r.store
            /\ \A d \in Stored(store, announcement_id) :
                \E e \in Stored(r.store, announcement_id) :
                    /\ DOMAIN e = DOMAIN d
                    /\ e["_id"] = d["_id"]
                    /\ e["created_at"] = d["created_at"]
                    /\ \A f \in DOMAIN d :
                        e[f] = IF f \in DOMAIN update_data THEN update_data[f] ELSE d[f]
                    /\ r.body = Serialize(e)

\* C8 witness: two records are stored, an update has just succeeded, one record
\* carries the updated title and the other the title it was created with.
C8_Witness ==
    /\ response.op = "update"
    /\ response.status = 200
    /\ \E d \in store, e \in store :
        /\ d["title"] = <<"B">>
        /\ e["title"] = <<"A">>

\* C9: an update that supplies only title and/or message on an existing record
\* succeeds whatever the stored dates are and leaves both dates unchanged.
C9_TextOnlyUpdate ==
    \A announcement_id \in IdArgs, text \in TextArgs :
        LET r == update_announcement(store, announcement_id, text[1], text[2], None, None)
        IN Stored(store, announcement_id) # {} /\ text # <<None, None>> =>
            /\ r.status = 200
            /\ \A d \in Stored(store, announcement_id) :
                \E e \in Stored(r.store, announcement_id) :
                    /\ e["start_date"] = d["start_date"]
                    /\ e["expiration_date"] = d["expiration_date"]

\* C9 witness: a record whose dates are out of order carries a title that only
\* an update sets, and the last update succeeded.
C9_Witness ==
    /\ response.op = "update"
    /\ response.status = 200
    /\ \E d \in store :
        /\ d["title"] = <<"B">>
        /\ IsStr(d["start_date"])
        /\ Hour(d["expiration_date"]) <= Hour(d["start_date"])

\* C10: every update request ends with the post-update record (200), a
\* ValidationError (400) or a NotFoundError (404), also when a delete of the
\* record falls between two of its store accesses.
C10_UpdateOutcomes == response.op = "update" => response.status \in {200, 400, 404}

====
